---------------------------- MODULE Spec2Model ----------------------------
(***************************************************************************)
(* Model of the geometric core of Digitalizacion_Planos:                   *)
(*   BackEnd/Planos/Services/extractor.py  (simplifier, point unifier,     *)
(*     endpoint merger, sublot validation, classification, area filter)    *)
(*   BackEnd/Lotes/serializers.py          (Shoelace area)                 *)
(*                                                                         *)
(* Points are pairs <<x, y>> of integers (pixel coordinates).  The code    *)
(* computes distances in floating point; the model compares the same       *)
(* quantities exactly, as squared distances held as fractions <<n, d>>.    *)
(* Every function of the pipeline is pure and is called once per request;  *)
(* each component has a call frame (a record variable) and a               *)
(* specification of its own.                                               *)
(***************************************************************************)
EXTENDS Integers, Sequences, FiniteSets, TLC

VARIABLES
    pc,      \* position of the running call
    rdp,     \* frame of ramer_douglas_peucker: points, epsilon, result
    lote,    \* frame of LoteSerializer.get_area_calculada
    unify,   \* frame of unify_close_points (two successive runs)
    merge,   \* frame of merge_nearby_endpoints
    proc,    \* frame of procesar_imagen (area filter and classification)
    sublot   \* frame of one call of is_valid_sublot

vars == <<pc, rdp, lote, unify, merge, proc, sublot>>

Idle == [idle |-> TRUE]

----------------------------------------------------------------------------
(* Bounds of the model.                                                    *)

\* simplifier inputs: coordinates 0..RdpMaxX by 0..RdpMaxY, up to RdpMaxLen points
RdpMaxX == 1
RdpMaxY == 1
RdpMaxLen == 4
\* epsilon ranges over 0..RdpMaxEps; RdpMaxEps exceeds every distance of the grid
RdpMaxEps == 3
\* Shoelace inputs: coordinates 0..LoteMaxX by 0..LoteMaxY, up to LoteMaxLen vertices
LoteMaxX == 2
LoteMaxY == 1
LoteMaxLen == 4
\* merger inputs: up to MergeMaxContours contours of 1 or 2 vertices, on the
\* pixels 0..MergeMaxX of one image row
MergeMaxContours == 3
MergeMaxX == 1
\* unifier inputs: pixels 0..UniMaxX of the image rows UniRows
UniMaxX == 2

----------------------------------------------------------------------------
(* Shared geometry.                                                        *)

Abs(n) == IF n < 0 THEN -n ELSE n

\* squared Euclidean distance of two points (the code takes its square root)
Dist2(p, q) == (p[1] - q[1]) * (p[1] - q[1]) + (p[2] - q[2]) * (p[2] - q[2])

\* fractions <<n, d>> with d > 0
FracGT(a, b) == a[1] * b[2] > b[1] * a[2]
FracLE(a, b) == ~FracGT(a, b)

Points(mx, my) == {<<x, y>> : x \in 0..mx, y \in 0..my}

SeqsOf(S, lo, hi) == UNION {[1..n -> S] : n \in lo..hi}

Reverse(s) == [i \in 1..Len(s) |-> s[Len(s) + 1 - i]]

\* the sum of f[i] over the i in S
RECURSIVE SumOver(_, _)
SumOver(f, S) ==
    IF S = {} THEN 0
    ELSE LET i == CHOOSE i \in S : TRUE IN f[i] + SumOver(f, S \ {i})

\* floor of the square root of 0 <= n < 2^31, by bisection (lo^2 <= n < hi^2)
RECURSIVE ISqrtBetween(_, _, _)
ISqrtBetween(n, lo, hi) ==
    IF hi - lo <= 1 THEN lo
    ELSE LET mid == (lo + hi) \div 2
         IN  IF mid * mid <= n THEN ISqrtBetween(n, mid, hi)
             ELSE ISqrtBetween(n, lo, mid)

ISqrt(n) == ISqrtBetween(n, 0, IF n < 46340 THEN n + 1 ELSE 46341)

----------------------------------------------------------------------------
(* extractor.py: distance_point_to_line, ramer_douglas_peucker             *)

\* The SQUARE of the distance the code returns, as a fraction.
\* projection_length = dot / |line_vec|, so projection_length < 0 iff dot < 0
\* and projection_length > line_length iff dot > |line_vec|^2; the foot of the
\* perpendicular is at squared distance cross^2 / |line_vec|^2.
distance_point_to_line(point, line_start, line_end) ==
    IF line_start = line_end
    THEN <<Dist2(point, line_start), 1>>
    ELSE LET lx == line_end[1] - line_start[1]
             ly == line_end[2] - line_start[2]
             px == point[1] - line_start[1]
             py == point[2] - line_start[2]
             len2 == lx * lx + ly * ly
             dot == px * lx + py * ly
             cross == lx * py - ly * px
         IN  IF dot < 0 THEN <<Dist2(point, line_start), 1>>
             ELSE IF dot > len2 THEN <<Dist2(point, line_end), 1>>
             ELSE <<cross * cross, len2>>

\* for i in range(1, end): keep the FIRST index of the greatest distance
\* (d > dmax is strict); index stays 0 and dmax 0 when every distance is 0.
\* Positions are 1-based here: i runs over 2..Len-1, index 0 of the code is 1.
RECURSIVE FarthestFrom(_, _, _, _)
FarthestFrom(points, i, index, dmax) ==
    IF i >= Len(points) THEN [index |-> index, dmax |-> dmax]
    ELSE LET d == distance_point_to_line(points[i], points[1], points[Len(points)])
         IN  IF FracGT(d, dmax)
             THEN FarthestFrom(points, i + 1, i, d)
             ELSE FarthestFrom(points, i + 1, index, dmax)

\* (the loop started one point late)
FarthestSkippingOne(points) == FarthestFrom(points, 3, 1, <<0, 1>>)

Farthest(points) == FarthestFrom(points, 2, 1, <<0, 1>>)

\* dmax > epsilon, on the squares (both sides are >= 0)
ExceedsEpsilon(dmax, epsilon) == FracGT(dmax, <<epsilon * epsilon, 1>>)

\* results1[:-1] + results2
JoinKeepingSplitTwice(results1, results2) == results1 \o results2
JoinResults(results1, results2) ==
    SubSeq(results1, 1, Len(results1) - 1) \o results2

\* [points[0], points[end]]
CollapseShortOfEnd(points) == <<points[1], points[Len(points) - 1]>>
Collapse(points) == <<points[1], points[Len(points)]>>

RECURSIVE ramer_douglas_peucker(_, _)
ramer_douglas_peucker(points, epsilon) ==
    IF Len(points) <= 2 THEN points
    ELSE LET f == Farthest(points)
         IN  IF ExceedsEpsilon(f.dmax, epsilon)
             THEN JoinResults(
                      ramer_douglas_peucker(SubSeq(points, 1, f.index), epsilon),
                      ramer_douglas_peucker(SubSeq(points, f.index, Len(points)), epsilon))
             ELSE Collapse(points)

----------------------------------------------------------------------------
(* Specification of the simplifier: one call on an arbitrary polyline.     *)

RdpInputs == SeqsOf(Points(RdpMaxX, RdpMaxY), 2, RdpMaxLen)

InitRDP ==
    /\ pc = "rdp_call"
    /\ rdp \in [points : RdpInputs, epsilon : 0..RdpMaxEps, result : {<<>>}]
    /\ lote = Idle /\ unify = Idle /\ merge = Idle /\ proc = Idle /\ sublot = Idle

Simplify ==
    /\ pc = "rdp_call"
    /\ rdp' = [rdp EXCEPT !.result = ramer_douglas_peucker(rdp.points, rdp.epsilon)]
    /\ pc' = "rdp_done"
    /\ UNCHANGED <<lote, unify, merge, proc, sublot>>

NextRDP == Simplify

SpecRDP == InitRDP /\ [][NextRDP]_vars

----------------------------------------------------------------------------
(* Claims about the simplifier.                                            *)

\* some interior point of some span lies ON the segment joining an earlier
\* and a later point of the sequence (distance 0)
OnAChord(points) ==
    \E j \in 1..Len(points) : \E i \in (j + 1)..Len(points) : \E k \in (i + 1)..Len(points) :
        distance_point_to_line(points[i], points[j], points[k])[1] = 0

\* C1 as stated: with epsilon = 0 the simplifier returns its input unchanged,
\* for every sequence of at least 2 points.
C1_EpsilonZeroIsIdentity ==
    (pc = "rdp_done" /\ rdp.epsilon = 0) => rdp.result = rdp.points

\* C1 as amended: with epsilon = 0 the simplifier returns its input unchanged
\* whenever no point lies on the segment joining an earlier and a later point
\* of the sequence; a point at distance 0 from its span's chord is not above
\* the tolerance and is removed.
C1_EpsilonZeroKeepsOffChordPoints ==
    (pc = "rdp_done" /\ rdp.epsilon = 0 /\ ~OnAChord(rdp.points))
        => rdp.result = rdp.points

C1_Witness ==
    /\ pc = "rdp_done" /\ rdp.epsilon = 0
    /\ Len(rdp.points) = 4 /\ ~OnAChord(rdp.points)
    /\ rdp.result = rdp.points

\* C2: an epsilon at least as large as the distance of every interior point
\* to the segment first-last collapses the sequence to <<first, last>>.
C2_LargeEpsilonCollapses ==
    (pc = "rdp_done"
        /\ \A i \in 2..(Len(rdp.points) - 1) :
              ~ExceedsEpsilon(distance_point_to_line(rdp.points[i], rdp.points[1],
                                                     rdp.points[Len(rdp.points)]),
                              rdp.epsilon))
        => rdp.result = <<rdp.points[1], rdp.points[Len(rdp.points)]>>

C2_Witness ==
    /\ pc = "rdp_done" /\ rdp.epsilon = RdpMaxEps
    /\ Len(rdp.points) = 4
    /\ Cardinality({rdp.points[i] : i \in 1..4}) = 4
    /\ rdp.result = <<rdp.points[1], rdp.points[4]>>

----------------------------------------------------------------------------
(* Lotes/serializers.py: LoteSerializer.get_area_calculada                 *)

\* for i in range(n): j = (i + 1) % n; area += x_i * y_j; area -= x_j * y_i
\* (1-based here: the successor of i is (i % n) + 1)
NextVertexNoWrap(i, n) == IF i = n THEN i ELSE i + 1
NextVertex(i, n) == (i % n) + 1

RECURSIVE ShoelaceLoop(_, _, _)
ShoelaceLoop(vertices, i, area) ==
    IF i > Len(vertices) THEN area
    ELSE LET j == NextVertex(i, Len(vertices))
         IN  ShoelaceLoop(vertices, i + 1,
                 area + vertices[i][1] * vertices[j][2] - vertices[j][1] * vertices[i][2])

\* None for fewer than 3 vertices, otherwise abs(area) / 2.0 as the fraction
\* <<abs(area), 2>>
get_area_calculada(vertices) ==
    IF Len(vertices) < 3 THEN "None"
    ELSE <<Abs(ShoelaceLoop(vertices, 1, 0)), 2>>

----------------------------------------------------------------------------
(* Specification of the Shoelace area: one serialization of a stored lot.  *)

LoteInputs == SeqsOf(Points(LoteMaxX, LoteMaxY), 1, LoteMaxLen)

InitLote ==
    /\ pc = "lote_call"
    /\ lote \in [vertices : LoteInputs, area_calculada : {"unset"}]
    /\ rdp = Idle /\ unify = Idle /\ merge = Idle /\ proc = Idle /\ sublot = Idle

Serialize ==
    /\ pc = "lote_call"
    /\ lote' = [lote EXCEPT !.area_calculada = get_area_calculada(lote.vertices)]
    /\ pc' = "lote_done"
    /\ UNCHANGED <<rdp, unify, merge, proc, sublot>>

NextLote == Serialize

SpecLote == InitLote /\ [][NextLote]_vars

----------------------------------------------------------------------------
(* Claims about the Shoelace area.                                         *)

\* the list started k places later, cyclically
Rotate(s, k) == [i \in 1..Len(s) |-> s[((i + k - 1) % Len(s)) + 1]]

\* sum over the cyclic edges of x_i * y_{i+1} - x_{i+1} * y_i, edge by edge
EdgeTerm(s, i) ==
    LET p == s[i]
        q == IF i = Len(s) THEN s[1] ELSE s[i + 1]
    IN  p[1] * q[2] - q[1] * p[2]

\* C10: for 3 or more integer vertices the computed area is the same for every
\* cyclic rotation of the list and for the reversed list, and equals
\* |sum(x_i*y_{i+1} - x_{i+1}*y_i)| / 2 over the cyclic edges.
C10_ShoelaceRotationReversal ==
    (pc = "lote_done" /\ Len(lote.vertices) >= 3) =>
        /\ \A k \in 0..(Len(lote.vertices) - 1) :
              get_area_calculada(Rotate(lote.vertices, k)) = lote.area_calculada
        /\ get_area_calculada(Reverse(lote.vertices)) = lote.area_calculada
        /\ lote.area_calculada =
              <<Abs(SumOver([i \in 1..Len(lote.vertices) |-> EdgeTerm(lote.vertices, i)],
                            1..Len(lote.vertices))), 2>>

C10_Witness ==
    /\ pc = "lote_done" /\ Len(lote.vertices) = 4
    /\ lote.area_calculada = <<4, 2>>
    /\ Rotate(lote.vertices, 1) # lote.vertices
    /\ Reverse(lote.vertices) # lote.vertices

----------------------------------------------------------------------------
(* extractor.py: unify_close_points                                        *)
(*                                                                         *)
(* merge_distance = image_diagonal * merge_distance_percent enters the     *)
(* function only through merge_distance itself; the model carries          *)
(* twoMD = 2 * merge_distance = grid_size as a positive integer, so        *)
(* merge_distance ranges over the multiples of 1/2.  Contours and points   *)
(* are numbered from 1.                                                    *)

\* distance <= merge_distance
WithinMerge(d2, twoMD) == 4 * d2 <= twoMD * twoMD

\* int(x // grid_size) for a pixel coordinate x >= 0
GridKey(coords, grid_size) == <<coords[1] \div grid_size, coords[2] \div grid_size>>

\* all_points, in the order of the two nested loops
RECURSIVE AllPointsFrom(_, _, _)
AllPointsFrom(contours, contour_idx, grid_size) ==
    IF contour_idx > Len(contours) THEN <<>>
    ELSE [point_idx \in 1..Len(contours[contour_idx]) |->
             [coords |-> contours[contour_idx][point_idx],
              contour_idx |-> contour_idx,
              point_idx |-> point_idx,
              grid_key |-> GridKey(contours[contour_idx][point_idx], grid_size)]]
         \o AllPointsFrom(contours, contour_idx + 1, grid_size)

\* (the scan of the seed's own cell only)
SameCell(key1, key2) == key1 = key2

\* adjacent_key = (grid_x + dx, grid_y + dy) for dx, dy in [-1, 0, 1]
NearCells(key1, key2) ==
    Abs(key1[1] - key2[1]) <= 1 /\ Abs(key1[2] - key2[2]) <= 1

\* the cluster started at an unmerged seed: the seed and every point of the
\* 3x3 cells around it that is not merged yet and within merge_distance
ClusterOf(all_points, seed, merged, twoMD) ==
    {seed} \cup
    {candidate_idx \in 1..Len(all_points) :
        /\ candidate_idx \notin merged /\ candidate_idx # seed
        /\ NearCells(all_points[seed].grid_key, all_points[candidate_idx].grid_key)
        /\ WithinMerge(Dist2(all_points[seed].coords, all_points[candidate_idx].coords),
                       twoMD)}

\* the clustering loop; only clusters of more than one point are kept
RECURSIVE Clustering(_, _, _, _, _)
Clustering(all_points, point_idx, merged, clusters, twoMD) ==
    IF point_idx > Len(all_points) THEN clusters
    ELSE IF point_idx \in merged
         THEN Clustering(all_points, point_idx + 1, merged, clusters, twoMD)
    ELSE LET cluster == ClusterOf(all_points, point_idx, merged, twoMD)
         IN  Clustering(all_points, point_idx + 1, merged \cup cluster,
                        IF Cardinality(cluster) > 1 THEN Append(clusters, cluster)
                        ELSE clusters,
                        twoMD)

\* weight = 2.0 if is_endpoint else 1.0
Weight(contours, point_data) ==
    IF point_data.point_idx = 1
       \/ point_data.point_idx = Len(contours[point_data.contour_idx])
    THEN 2 ELSE 1

\* int(round(n / d)) for n >= 0, d > 0: Python rounds a half to the even integer
RoundHalfEven(n, d) ==
    LET q == n \div d
        r == n % d
    IN  IF 2 * r < d THEN q
        ELSE IF 2 * r > d THEN q + 1
        ELSE IF q % 2 = 0 THEN q ELSE q + 1

Centroid(contours, all_points, cluster) ==
    LET w == [i \in cluster |-> Weight(contours, all_points[i])]
        total_weight == SumOver(w, cluster)
        weighted_x == SumOver([i \in cluster |-> all_points[i].coords[1] * w[i]], cluster)
        weighted_y == SumOver([i \in cluster |-> all_points[i].coords[2] * w[i]], cluster)
    IN  <<RoundHalfEven(weighted_x, total_weight), RoundHalfEven(weighted_y, total_weight)>>

\* key = (point_data['contour_idx'], point_data['point_idx'])
CentroidKeySwapped(point_data) == <<point_data.point_idx, point_data.contour_idx>>
CentroidKey(point_data) == <<point_data.contour_idx, point_data.point_idx>>

\* cluster_centroids, cluster after cluster (a later entry replaces an earlier one)
RECURSIVE CentroidsFrom(_, _, _, _, _)
CentroidsFrom(contours, all_points, clusters, n, cluster_centroids) ==
    IF n > Len(clusters) THEN cluster_centroids
    ELSE LET centroid == Centroid(contours, all_points, clusters[n])
             keys == {CentroidKey(all_points[i]) : i \in clusters[n]}
         IN  CentroidsFrom(contours, all_points, clusters, n + 1,
                           [key \in keys |-> centroid] @@ cluster_centroids)

\* distance_to_prev >= merge_distance * 0.5
FarEnoughFromPrev(new_point, prev_point, twoMD) ==
    16 * Dist2(new_point, prev_point) >= twoMD * twoMD

\* the rewriting loop of one contour; prev_point is the last point appended
RECURSIVE UnifyContourFrom(_, _, _, _, _, _)
UnifyContourFrom(contour, contour_idx, point_idx, unified_contour, cluster_centroids, twoMD) ==
    IF point_idx > Len(contour) THEN unified_contour
    ELSE LET key == <<contour_idx, point_idx>>
             new_point == IF key \in DOMAIN cluster_centroids
                          THEN cluster_centroids[key]
                          ELSE contour[point_idx]
             keep == \/ unified_contour = <<>>
                     \/ FarEnoughFromPrev(new_point, unified_contour[Len(unified_contour)],
                                          twoMD)
         IN  UnifyContourFrom(contour, contour_idx, point_idx + 1,
                              IF keep THEN Append(unified_contour, new_point)
                              ELSE unified_contour,
                              cluster_centroids, twoMD)

\* total_length >= merge_distance * 2, total_length the sum of the square
\* roots of the squared lengths of the segments.  The sum is taken in
\* thousandths, each root rounded down: for n segments it is below the true
\* sum by less than n thousandths, and exact when every length is an integer.
TotalLengthMilli(unified_contour) ==
    SumOver([i \in 1..(Len(unified_contour) - 1) |->
                ISqrt(1000000 * Dist2(unified_contour[i], unified_contour[i + 1]))],
            1..(Len(unified_contour) - 1))

\* (total_length >= merge_distance, without the factor 2)
LongEnoughOnce(unified_contour, twoMD) ==
    2 * TotalLengthMilli(unified_contour) >= 1000 * twoMD

LongEnough(unified_contour, twoMD) == TotalLengthMilli(unified_contour) >= 1000 * twoMD

\* the loop over the contours: rewrite, then keep the contour when it has 2
\* or more points and is long enough
RECURSIVE UnifiedFrom(_, _, _, _)
UnifiedFrom(contours, contour_idx, cluster_centroids, twoMD) ==
    IF contour_idx > Len(contours) THEN <<>>
    ELSE LET unified_contour ==
                 UnifyContourFrom(contours[contour_idx], contour_idx, 1, <<>>,
                                  cluster_centroids, twoMD)
         IN  (IF Len(unified_contour) >= 2 /\ LongEnough(unified_contour, twoMD)
              THEN <<unified_contour>> ELSE <<>>)
             \o UnifiedFrom(contours, contour_idx + 1, cluster_centroids, twoMD)

unify_close_points(contours, twoMD) ==
    IF contours = <<>> THEN contours
    ELSE LET all_points == AllPointsFrom(contours, 1, twoMD)
             clusters == Clustering(all_points, 1, {}, <<>>, twoMD)
             cluster_centroids ==
                 CentroidsFrom(contours, all_points, clusters, 1, <<>>)
         IN  UnifiedFrom(contours, 1, cluster_centroids, twoMD)

----------------------------------------------------------------------------
(* Specification of the unifier: a run, then a second run on its output.   *)

UniRows == 0..1
UniPoints == {<<x, y>> : x \in 0..UniMaxX, y \in UniRows}
\* one contour of up to 4 points, or two contours of up to 2 points each
UniInputs ==
    {<<c>> : c \in SeqsOf(UniPoints, 1, 4)}
        \cup {<<c, d>> : c \in SeqsOf(UniPoints, 1, 2), d \in SeqsOf(UniPoints, 1, 2)}
UniTwoMD == {1, 2, 3}

InitUnify ==
    /\ pc = "unify_call"
    /\ unify \in [contours : UniInputs, twoMD : UniTwoMD, once : {<<>>}, twice : {<<>>}]
    /\ rdp = Idle /\ lote = Idle /\ merge = Idle /\ proc = Idle /\ sublot = Idle

Unify ==
    /\ pc = "unify_call"
    /\ unify' = [unify EXCEPT !.once = unify_close_points(unify.contours, unify.twoMD)]
    /\ pc' = "unify_once"
    /\ UNCHANGED <<rdp, lote, merge, proc, sublot>>

UnifyAgain ==
    /\ pc = "unify_once"
    /\ unify' = [unify EXCEPT !.twice = unify_close_points(unify.once, unify.twoMD)]
    /\ pc' = "unify_twice"
    /\ UNCHANGED <<rdp, lote, merge, proc, sublot>>

NextUnify == Unify \/ UnifyAgain

SpecUnify == InitUnify /\ [][NextUnify]_vars

----------------------------------------------------------------------------
(* Claims about the unifier.                                               *)

VerticesOf(contours) ==
    UNION {{contours[c][k] : k \in 1..Len(contours[c])} : c \in 1..Len(contours)}

\* two vertices at different places within merge_distance of each other
SomeClosePair(contours, twoMD) ==
    \E p, q \in VerticesOf(contours) : p # q /\ WithinMerge(Dist2(p, q), twoMD)

\* C3 as stated: a second run on the output of the first changes nothing.
C3_UnifyIdempotent ==
    pc = "unify_twice" => unify.twice = unify.once

\* C3 as amended: a second run changes nothing when the first run left no two
\* vertices at different places within merge_distance of each other; when it
\* did (a centroid can land within merge_distance of a vertex that was out of
\* reach of the seed), the second run merges further.
C3_UnifyIdempotentOnceSeparated ==
    (pc = "unify_twice" /\ ~SomeClosePair(unify.once, unify.twoMD))
        => unify.twice = unify.once

C3_Witness ==
    /\ pc = "unify_twice"
    /\ Len(unify.once) = 2 /\ unify.once # unify.contours
    /\ ~SomeClosePair(unify.once, unify.twoMD)
    /\ SomeClosePair(unify.contours, unify.twoMD)
    /\ unify.twice = unify.once

----------------------------------------------------------------------------
(* extractor.py: merge_nearby_endpoints                                    *)
(*                                                                         *)
(* merge_distance = image_diagonal * merge_distance_percent is a real; the *)
(* model carries twoMD = 2 * merge_distance as an integer, so that         *)
(* merge_distance ranges over the multiples of 1/2.  Contours are numbered *)
(* from 1 (the code numbers them from 0).  Beside each slot of             *)
(* merged_contours the frame keeps `origin`, the same list with every      *)
(* vertex replaced by its identity <<input contour, position>>: two        *)
(* vertices may have the same coordinates.                                 *)

\* endpoints: for each contour of 2 or more points its start, then its end
RECURSIVE CollectEndpoints(_, _)
CollectEndpoints(contours, contour_idx) ==
    IF contour_idx > Len(contours) THEN <<>>
    ELSE LET contour == contours[contour_idx]
             own == IF Len(contour) >= 2
                    THEN << [p |-> contour[1], contour_idx |-> contour_idx,
                             is_start |-> TRUE],
                            [p |-> contour[Len(contour)], contour_idx |-> contour_idx,
                             is_start |-> FALSE] >>
                    ELSE <<>>
         IN  own \o CollectEndpoints(contours, contour_idx + 1)

\* (the inner loop without the test c1 == c2)
RECURSIVE FirstPartnerAnyContour(_, _, _, _, _)
FirstPartnerAnyContour(endpoints, i, j, used_endpoints, twoMD) ==
    IF j > Len(endpoints) THEN 0
    ELSE IF j \in used_endpoints
         THEN FirstPartnerAnyContour(endpoints, i, j + 1, used_endpoints, twoMD)
    ELSE IF WithinMerge(Dist2(endpoints[i].p, endpoints[j].p), twoMD)
         THEN j
    ELSE FirstPartnerAnyContour(endpoints, i, j + 1, used_endpoints, twoMD)

\* the inner loop: the first j > i that is unused, of another contour and
\* within merge_distance (break); 0 when there is none
RECURSIVE FirstPartner(_, _, _, _, _)
FirstPartner(endpoints, i, j, used_endpoints, twoMD) ==
    IF j > Len(endpoints) THEN 0
    ELSE IF j \in used_endpoints
            \/ endpoints[i].contour_idx = endpoints[j].contour_idx
         THEN FirstPartner(endpoints, i, j + 1, used_endpoints, twoMD)
    ELSE IF WithinMerge(Dist2(endpoints[i].p, endpoints[j].p), twoMD)
         THEN j
    ELSE FirstPartner(endpoints, i, j + 1, used_endpoints, twoMD)

\* the outer loop; a pair keeps the positions i, j of its endpoints in the
\* endpoint list beside the fields the code stores
RECURSIVE PairSearch(_, _, _, _, _)
PairSearch(endpoints, i, used_endpoints, merge_pairs, twoMD) ==
    IF i > Len(endpoints) THEN merge_pairs
    ELSE IF i \in used_endpoints
         THEN PairSearch(endpoints, i + 1, used_endpoints, merge_pairs, twoMD)
    ELSE LET j == FirstPartner(endpoints, i, i + 1, used_endpoints, twoMD)
         IN  IF j = 0
             THEN PairSearch(endpoints, i + 1, used_endpoints, merge_pairs, twoMD)
             ELSE PairSearch(endpoints, i + 1, used_endpoints \cup {i, j},
                     Append(merge_pairs,
                         [c1 |-> endpoints[i].contour_idx,
                          is_start1 |-> endpoints[i].is_start,
                          c2 |-> endpoints[j].contour_idx,
                          is_start2 |-> endpoints[j].is_start,
                          distance2 |-> Dist2(endpoints[i].p, endpoints[j].p),
                          i |-> i, j |-> j]),
                     twoMD)

\* merge_pairs.sort(key = distance): a stable sort, ascending
RECURSIVE InsertByDistance(_, _)
InsertByDistance(sorted, pair) ==
    IF sorted = <<>> THEN <<pair>>
    ELSE IF sorted[Len(sorted)].distance2 <= pair.distance2
         THEN Append(sorted, pair)
    ELSE Append(InsertByDistance(SubSeq(sorted, 1, Len(sorted) - 1), pair),
                sorted[Len(sorted)])

RECURSIVE SortFrom(_, _, _)
SortFrom(pairs, n, sorted) ==
    IF n > Len(pairs) THEN sorted
    ELSE SortFrom(pairs, n + 1, InsertByDistance(sorted, pairs[n]))

KeepSearchOrder(merge_pairs) == merge_pairs
SortByDistance(merge_pairs) == SortFrom(merge_pairs, 1, <<>>)

\* (the concatenation with the second matched endpoint left out)
MergeDroppingJoint(is_start1, is_start2, contour1, contour2) ==
    IF is_start1 /\ is_start2 THEN Reverse(contour1) \o Tail(contour2)
    ELSE IF is_start1 /\ ~is_start2 THEN SubSeq(contour2, 1, Len(contour2) - 1) \o contour1
    ELSE IF ~is_start1 /\ is_start2 THEN contour1 \o Tail(contour2)
    ELSE contour1 \o Tail(Reverse(contour2))

\* the four orientation cases, decided by the flags recorded with the pair
MergeOriented(is_start1, is_start2, contour1, contour2) ==
    IF is_start1 /\ is_start2 THEN Reverse(contour1) \o contour2
    ELSE IF is_start1 /\ ~is_start2 THEN contour2 \o contour1
    ELSE IF ~is_start1 /\ is_start2 THEN contour1 \o contour2
    ELSE contour1 \o Reverse(contour2)

\* a slot of merged_contours: a contour, or None
Some(contour) == [none |-> FALSE, c |-> contour]
None == [none |-> TRUE, c |-> <<>>]

\* not contour: None or an empty list
Falsy(slot) == slot.none \/ slot.c = <<>>

\* [c for c in merged_contours if c is not None and len(c) >= 2]
RECURSIVE Compacted(_, _)
Compacted(slots, n) ==
    IF n > Len(slots) THEN <<>>
    ELSE IF ~slots[n].none /\ Len(slots[n].c) >= 2
         THEN <<slots[n].c>> \o Compacted(slots, n + 1)
    ELSE Compacted(slots, n + 1)

Identities(contours) ==
    [c \in 1..Len(contours) |-> [k \in 1..Len(contours[c]) |-> <<c, k>>]]

----------------------------------------------------------------------------
(* Specification of the endpoint merger: one call, one step per pair.      *)

MergePoints == Points(MergeMaxX, 0)
MergeContours == SeqsOf(MergePoints, 1, 2)
MergeInputs == SeqsOf(MergeContours, 1, MergeMaxContours)
MergeTwoMD == {1, 2, 4}

InitMerge ==
    /\ pc = "merge_call"
    /\ merge \in [contours : MergeInputs, twoMD : MergeTwoMD,
                   merge_pairs : {<<>>}, merged_contours : {<<>>}, origin : {<<>>},
                   k : {0}, last : {<<>>}, applied : {0},
                   final_contours : {<<>>}, final_origin : {<<>>}]
    /\ rdp = Idle /\ lote = Idle /\ unify = Idle /\ proc = Idle /\ sublot = Idle

\* if len(contours) < 2: return contours
ReturnUnmerged ==
    /\ pc = "merge_call"
    /\ Len(merge.contours) < 2
    /\ merge' = [merge EXCEPT !.final_contours = merge.contours,
                              !.final_origin = Identities(merge.contours)]
    /\ pc' = "merge_done"
    /\ UNCHANGED <<rdp, lote, unify, proc, sublot>>

\* lines 272-310: collect the endpoints, search the pairs, copy the list, sort
FindPairs ==
    /\ pc = "merge_call"
    /\ Len(merge.contours) >= 2
    /\ merge' = [merge EXCEPT
            !.merge_pairs = SortByDistance(
                PairSearch(CollectEndpoints(merge.contours, 1), 1, {}, <<>>, merge.twoMD)),
            !.merged_contours = [c \in 1..Len(merge.contours) |-> Some(merge.contours[c])],
            !.origin = [c \in 1..Len(merge.contours) |-> Some(Identities(merge.contours)[c])],
            !.k = 1]
    /\ pc' = "merge_apply"
    /\ UNCHANGED <<rdp, lote, unify, proc, sublot>>

\* one iteration of the loop over the sorted pairs, when a slot of the pair
\* is None (or empty): continue
SkipPair ==
    /\ pc = "merge_apply"
    /\ merge.k <= Len(merge.merge_pairs)
    /\ LET pair == merge.merge_pairs[merge.k]
       IN  Falsy(merge.merged_contours[pair.c1]) \/ Falsy(merge.merged_contours[pair.c2])
    /\ merge' = [merge EXCEPT !.k = merge.k + 1]
    /\ pc' = "merge_apply"
    /\ UNCHANGED <<rdp, lote, unify, proc, sublot>>

\* one iteration of the loop over the sorted pairs, otherwise: slot c1 takes
\* the concatenation, slot c2 becomes None.  `last` records the step and
\* `applied` counts the merges done.
MergePair ==
    /\ pc = "merge_apply"
    /\ merge.k <= Len(merge.merge_pairs)
    /\ LET pair == merge.merge_pairs[merge.k]
           contour1 == merge.merged_contours[pair.c1]
           contour2 == merge.merged_contours[pair.c2]
       IN  /\ ~Falsy(contour1) /\ ~Falsy(contour2)
           /\ merge' = [merge EXCEPT
                  !.merged_contours =
                      [[merge.merged_contours EXCEPT
                          ![pair.c1] = Some(MergeOriented(pair.is_start1, pair.is_start2,
                                                           contour1.c, contour2.c))]
                          EXCEPT ![pair.c2] = None],
                  !.origin =
                      [[merge.origin EXCEPT
                          ![pair.c1] = Some(MergeOriented(pair.is_start1, pair.is_start2,
                                                           merge.origin[pair.c1].c,
                                                           merge.origin[pair.c2].c))]
                          EXCEPT ![pair.c2] = None],
                  !.last = <<[pair |-> pair,
                              before1 |-> merge.origin[pair.c1].c,
                              before2 |-> merge.origin[pair.c2].c]>>,
                  !.applied = merge.applied + 1,
                  !.k = merge.k + 1]
    /\ pc' = "merge_apply"
    /\ UNCHANGED <<rdp, lote, unify, proc, sublot>>

\* lines 347-351: drop the removed slots and the contours of fewer than 2 points
Compact ==
    /\ pc = "merge_apply"
    /\ merge.k > Len(merge.merge_pairs)
    /\ merge' = [merge EXCEPT !.final_contours = Compacted(merge.merged_contours, 1),
                              !.final_origin = Compacted(merge.origin, 1)]
    /\ pc' = "merge_done"
    /\ UNCHANGED <<rdp, lote, unify, proc, sublot>>

NextMerge == ReturnUnmerged \/ FindPairs \/ SkipPair \/ MergePair \/ Compact

SpecMerge == InitMerge /\ [][NextMerge]_vars

----------------------------------------------------------------------------
(* Claims about the endpoint merger.                                       *)

Range(s) == {s[n] : n \in 1..Len(s)}

RECURSIVE TotalLen(_)
TotalLen(contours) ==
    IF contours = <<>> THEN 0 ELSE Len(Head(contours)) + TotalLen(Tail(contours))

SlotContours(slots) == [n \in 1..Len(slots) |-> slots[n].c]

\* the identity of the endpoint a pair matched in contour c
EndpointId(c, is_start) == <<c, IF is_start THEN 1 ELSE Len(merge.contours[c])>>
MatchedFirst(pair) == EndpointId(pair.c1, pair.is_start1)
MatchedSecond(pair) == EndpointId(pair.c2, pair.is_start2)

\* C4: at every point of the merge loop and in the result, the contours hold
\* no more vertices than the input did, and the two endpoints a merge step
\* joins were, before the step, in two different contours (two different
\* input contours, and two different slots of the list being merged).
C4_NoGrowthNoSelfMerge ==
    /\ pc = "merge_apply" =>
          TotalLen(SlotContours(merge.merged_contours)) <= TotalLen(merge.contours)
    /\ pc = "merge_done" => TotalLen(merge.final_contours) <= TotalLen(merge.contours)
    /\ merge.last # <<>> =>
          LET step == merge.last[1]
          IN  /\ step.pair.c1 # step.pair.c2
              /\ MatchedFirst(step.pair) \in Range(step.before1)
              /\ MatchedSecond(step.pair) \in Range(step.before2)
              /\ Range(step.before1) \cap Range(step.before2) = {}

C4_Witness ==
    /\ pc = "merge_done" /\ merge.last # <<>>
    /\ Len(merge.contours) = 3 /\ TotalLen(merge.contours) = 5
    /\ Len(merge.final_contours) = 1 /\ Len(merge.final_contours[1]) = 4

\* candidate pairs: endpoints of different contours within merge_distance
Candidate(E, a, b) ==
    /\ a # b
    /\ E[a].contour_idx # E[b].contour_idx
    /\ WithinMerge(Dist2(E[a].p, E[b].p), merge.twoMD)

\* the selected pairs are candidates, recorded as found, and no endpoint is
\* in two of them
SelectedIsMatching(E, pairs) ==
    /\ \A n \in 1..Len(pairs) :
          LET q == pairs[n]
          IN  /\ q.i \in 1..Len(E) /\ q.j \in 1..Len(E) /\ q.i < q.j
              /\ Candidate(E, q.i, q.j)
              /\ q.distance2 = Dist2(E[q.i].p, E[q.j].p)
              /\ q.c1 = E[q.i].contour_idx /\ q.is_start1 = E[q.i].is_start
              /\ q.c2 = E[q.j].contour_idx /\ q.is_start2 = E[q.j].is_start
    /\ \A m, n \in 1..Len(pairs) :
          m # n => {pairs[m].i, pairs[m].j} \cap {pairs[n].i, pairs[n].j} = {}

Adjacent(e1, e2, contour) ==
    \E n \in 1..(Len(contour) - 1) : {contour[n], contour[n + 1]} = {e1, e2}

\* C6: after a merge step the two endpoints that were matched are consecutive
\* vertices of the merged contour, also when slot c1 held the result of an
\* earlier merge.
C6_MatchedEndpointsAdjacent ==
    (pc \in {"merge_apply", "merge_done"} /\ merge.last # <<>>) =>
        LET step == merge.last[1]
        IN  Adjacent(MatchedFirst(step.pair), MatchedSecond(step.pair),
                     merge.origin[step.pair.c1].c)

-----------------------------------------------------------------------------
(* Sub-lot validation: is_valid_sublot and calculate_polygon_angles.        *)
(* An angle is held as what the code divides: the dot product of the two   *)
(* edge vectors at the vertex and the squares of their norms.  Areas are    *)
(* held doubled, so that they stay integers.                                *)

\* length of the longest polygon handed to is_valid_sublot
SublotMaxLen == 8

Cross(p, q) == p[1] * q[2] - q[1] * p[2]

RECURSIVE GreenSumFrom(_, _, _)
GreenSumFrom(contour, i, a00) ==
    IF i > Len(contour) THEN a00
    ELSE LET prev == IF i = 1 THEN contour[Len(contour)] ELSE contour[i - 1]
         IN  GreenSumFrom(contour, i + 1, a00 + Cross(prev, contour[i]))

\* twice cv2.contourArea(contour): the absolute value of Green's sum over the
\* closed contour (0 for an empty contour)
contourAreaTwice(contour) ==
    IF Len(contour) = 0 THEN 0 ELSE Abs(GreenSumFrom(contour, 1, 0))

\* the angle at vertex i, between the vectors to the previous and to the next
\* vertex (cyclically)
AngleAt(polygon, i) ==
    LET n  == Len(polygon)
        p1 == polygon[IF i = 1 THEN n ELSE i - 1]
        p2 == polygon[i]
        p3 == polygon[(i % n) + 1]
        v1 == <<p1[1] - p2[1], p1[2] - p2[2]>>
        v2 == <<p3[1] - p2[1], p3[2] - p2[2]>>
    IN  [dot    |-> v1[1] * v2[1] + v1[2] * v2[2],
         norm1sq |-> v1[1] * v1[1] + v1[2] * v1[2],
         norm2sq |-> v2[1] * v2[1] + v2[2] * v2[2]]

calculate_polygon_angles(polygon) ==
    IF Len(polygon) < 3 THEN <<>>
    ELSE [i \in 1..Len(polygon) |-> AngleAt(polygon, i)]

\* the division by a zero norm gives NaN, which clip, arccos and degrees keep
IsNaN(angle) == angle.norm1sq * angle.norm2sq = 0

\* cos^2 of the minimum angle (degrees, at most 90) as a fraction; for 40
\* degrees the six digits separate it from every cos^2 a polygon of the model
\* can have
CosSq(min_angle) ==
    CASE min_angle = 40 -> <<586824, 1000000>>
      [] min_angle = 60 -> <<1, 4>>
      [] min_angle = 90 -> <<0, 1>>

\* angle < min_angle as the code evaluates it: False for NaN, otherwise
\* cos(angle) > cos(min_angle), compared through the squares
AngleLess(angle, min_angle) ==
    /\ ~IsNaN(angle)
    /\ angle.dot > 0
    /\ angle.dot * angle.dot * CosSq(min_angle)[2]
           > CosSq(min_angle)[1] * angle.norm1sq * angle.norm2sq

AreaTooSmall(polygon, cfg) ==
    contourAreaTwice(polygon) < 2 * cfg.min_sublot_area

is_valid_sublot(polygon, cfg) ==
    IF Len(polygon) < 3 \/ Len(polygon) > 7 THEN FALSE
    ELSE IF AreaTooSmall(polygon, cfg) THEN FALSE
    ELSE LET angles == calculate_polygon_angles(polygon)
         IN  IF \E i \in 1..Len(angles) : AngleLess(angles[i], cfg.min_angle)
             THEN FALSE
             ELSE TRUE

-----------------------------------------------------------------------------
(* Specification of the sub-lot validation: one call on a polygon over the  *)
(* corners of a square of side 2, with a minimum area and a minimum angle.  *)

SublotPoints == {<<0, 0>>, <<2, 0>>, <<2, 2>>, <<0, 2>>}

SublotPolygons == SeqsOf(SublotPoints, 2, SublotMaxLen)

SublotCfgs ==
    [min_sublot_area : {2, 4}, min_angle : {40, 90}, min_contour_area : {1}]

InitSublot ==
    /\ pc = "sublot_call"
    /\ \E polygon \in SublotPolygons : \E cfg \in SublotCfgs :
           sublot = [polygon |-> polygon, cfg |-> cfg, result |-> "pending"]
    /\ rdp = Idle /\ lote = Idle /\ unify = Idle /\ merge = Idle /\ proc = Idle

Validate ==
    /\ pc = "sublot_call"
    /\ sublot' = [sublot EXCEPT !.result = is_valid_sublot(sublot.polygon, sublot.cfg)]
    /\ pc' = "sublot_done"
    /\ UNCHANGED <<rdp, lote, unify, merge, proc>>

NextSublot == Validate

SpecSublot == InitSublot /\ [][NextSublot]_vars

-----------------------------------------------------------------------------
(* Claims about the sub-lot validation.                                     *)

\* the angle at vertex i is defined and at least min_angle
AngleAtLeast(angle, min_angle) ==
    /\ angle.norm1sq * angle.norm2sq > 0
    /\ \/ angle.dot <= 0
       \/ angle.dot * angle.dot * CosSq(min_angle)[2]
              <= CosSq(min_angle)[1] * angle.norm1sq * angle.norm2sq

\* the angle at vertex i is defined and smaller than min_angle
AngleSmaller(angle, min_angle) ==
    /\ angle.norm1sq * angle.norm2sq > 0
    /\ angle.dot > 0
    /\ angle.dot * angle.dot * CosSq(min_angle)[2]
           > CosSq(min_angle)[1] * angle.norm1sq * angle.norm2sq

\* C7: is_valid_sublot returns False for a polygon with fewer than 3 or more
\* than 7 vertices and for a polygon with an angle smaller than min_angle,
\* whatever its area; it returns True only if the vertex count is in 3..7,
\* the area is at least min_sublot_area and every angle is defined and at
\* least min_angle.
C7_ValidSublotContract ==
    pc = "sublot_done" =>
        LET polygon == sublot.polygon
            n       == Len(polygon)
            cfg     == sublot.cfg
        IN  /\ (n < 3 \/ n > 7) => sublot.result = FALSE
            /\ (n >= 3 /\ \E i \in 1..n : AngleSmaller(AngleAt(polygon, i), cfg.min_angle))
                   => sublot.result = FALSE
            /\ sublot.result = TRUE =>
                   /\ n \in 3..7
                   /\ contourAreaTwice(polygon) >= 2 * cfg.min_sublot_area
                   /\ \A i \in 1..n : AngleAtLeast(AngleAt(polygon, i), cfg.min_angle)

-----------------------------------------------------------------------------
(* Area filter and classification: procesar_imagen and classify_contours.   *)
(* A hierarchy entry is <<Next, Previous, First_Child, Parent>> with the    *)
(* contour numbers of OpenCV (from 0, -1 for none).  Beside each output     *)
(* list the model keeps, as history, the input positions its entries came   *)
(* from.                                                                    *)

\* largest number of contours that findContours reports
ProcMaxContours == 3

\* variant: the parent read from the First_Child column
ParentFromFirstChild(entry) == entry[3]

ParentOf(entry) == entry[4]

AppendEntry(filtered_hierarchy, entry, keep) ==
    IF keep THEN Append(filtered_hierarchy, entry) ELSE filtered_hierarchy

KeptByArea(contour, cfg) == contourAreaTwice(contour) > 2 * cfg.min_contour_area

RECURSIVE FilterFrom(_, _, _, _, _)
FilterFrom(contours, hierarchy, cfg, i, acc) ==
    IF i > Len(contours) THEN acc
    ELSE LET keep == KeptByArea(contours[i], cfg)
         IN  FilterFrom(contours, hierarchy, cfg, i + 1,
                 [filtered_contours  |-> IF keep THEN Append(acc.filtered_contours, contours[i])
                                         ELSE acc.filtered_contours,
                  filtered_hierarchy |-> AppendEntry(acc.filtered_hierarchy, hierarchy[i], keep),
                  kept               |-> IF keep THEN Append(acc.kept, i) ELSE acc.kept])

AreaFiltered(contours, hierarchy, cfg) ==
    FilterFrom(contours, hierarchy, cfg, 1,
               [filtered_contours |-> <<>>, filtered_hierarchy |-> <<>>, kept |-> <<>>])

RECURSIVE ClassifyFrom(_, _, _, _, _)
ClassifyFrom(contours, hierarchy, cfg, i, acc) ==
    IF i > Len(contours) THEN acc
    ELSE ClassifyFrom(contours, hierarchy, cfg, i + 1,
             IF Len(contours[i]) >= 3
             THEN IF ParentOf(hierarchy[i]) = -1
                  THEN [acc EXCEPT !.bordes_externos = Append(@, contours[i]),
                                   !.external_from   = Append(@, i)]
                  ELSE IF is_valid_sublot(contours[i], cfg)
                       THEN [acc EXCEPT !.sublotes      = Append(@, contours[i]),
                                        !.internal_from = Append(@, i)]
                       ELSE acc
             ELSE acc)

classify_contours(contours, hierarchy, cfg) ==
    ClassifyFrom(contours, hierarchy, cfg, 1,
                 [bordes_externos |-> <<>>, sublotes |-> <<>>,
                  external_from |-> <<>>, internal_from |-> <<>>])

-----------------------------------------------------------------------------
(* Specification of the classification: findContours has reported up to     *)
(* ProcMaxContours contours, each a segment, a small triangle, a square or  *)
(* a large triangle, with any parent; procesar_imagen filters them by area  *)
(* and classifies what is left.  classify_contours is also called on the    *)
(* unfiltered contours, as any other caller of the function may do.         *)

ProcShapes ==
    {<<<<0, 0>>, <<2, 0>>>>,
     <<<<0, 0>>, <<2, 0>>, <<0, 2>>>>,
     <<<<0, 0>>, <<2, 0>>, <<2, 2>>, <<0, 2>>>>,
     <<<<0, 0>>, <<4, 0>>, <<0, 4>>>>}

ProcCfgs ==
    [min_contour_area : {1, 2}, min_sublot_area : {4}, min_angle : {40, 90}]

\* following the parents from contour i ends at a contour with none
RECURSIVE ReachesRoot(_, _, _)
ReachesRoot(parents, i, steps) ==
    IF parents[i] = -1 THEN TRUE
    ELSE IF steps = 0 THEN FALSE
    ELSE ReachesRoot(parents, parents[i] + 1, steps - 1)

\* parents (contour numbers from 0, -1 for none) of n contours: a forest, as
\* the nesting of the contours of an image is
ParentsOf(n) ==
    {parents \in [1..n -> -1..(n - 1)] : \A i \in 1..n : ReachesRoot(parents, i, n)}

FirstChildOf(parents, i) ==
    LET children == {j \in 1..Len(parents) : parents[j] = i - 1}
    IN  IF children = {} THEN -1
        ELSE (CHOOSE j \in children : \A k \in children : j <= k) - 1

HierarchyOf(parents) ==
    [i \in 1..Len(parents) |->
        <<IF i < Len(parents) THEN i ELSE -1,
          i - 2,
          FirstChildOf(parents, i),
          parents[i]>>]

NoResult ==
    [bordes_externos |-> <<>>, sublotes |-> <<>>,
     external_from |-> <<>>, internal_from |-> <<>>]

InitProc ==
    /\ pc = "proc_found"
    /\ \E n \in 1..ProcMaxContours :
         \E contours \in [1..n -> ProcShapes] :
           \E parents \in ParentsOf(n) :
             \E cfg \in ProcCfgs :
               proc = [contours           |-> contours,
                       hierarchy          |-> HierarchyOf(parents),
                       cfg                |-> cfg,
                       filtered_contours  |-> <<>>,
                       filtered_hierarchy |-> <<>>,
                       kept               |-> <<>>,
                       classify_contours  |-> <<>>,
                       classify_hierarchy |-> <<>>,
                       classified_contours |-> NoResult]
    /\ rdp = Idle /\ lote = Idle /\ unify = Idle /\ merge = Idle /\ sublot = Idle

\* the loop of procesar_imagen that keeps the contours of enough area
AreaFilter ==
    /\ pc = "proc_found"
    /\ LET f == AreaFiltered(proc.contours, proc.hierarchy, proc.cfg)
       IN  proc' = [proc EXCEPT !.filtered_contours  = f.filtered_contours,
                                !.filtered_hierarchy = f.filtered_hierarchy,
                                !.kept               = f.kept]
    /\ pc' = "proc_filtered"
    /\ UNCHANGED <<rdp, lote, unify, merge, sublot>>

\* procesar_imagen classifies the filtered contours
Classify ==
    /\ pc = "proc_filtered"
    /\ proc' = [proc EXCEPT
                  !.classify_contours   = proc.filtered_contours,
                  !.classify_hierarchy  = proc.filtered_hierarchy,
                  !.classified_contours =
                      classify_contours(proc.filtered_contours,
                                        proc.filtered_hierarchy, proc.cfg)]
    /\ pc' = "proc_classified"
    /\ UNCHANGED <<rdp, lote, unify, merge, sublot>>

\* classify_contours called on contours that went through no filter
ClassifyDirect ==
    /\ pc = "proc_found"
    /\ proc' = [proc EXCEPT
                  !.classify_contours   = proc.contours,
                  !.classify_hierarchy  = proc.hierarchy,
                  !.kept                = [i \in 1..Len(proc.contours) |-> i],
                  !.classified_contours =
                      classify_contours(proc.contours, proc.hierarchy, proc.cfg)]
    /\ pc' = "classify_done"
    /\ UNCHANGED <<rdp, lote, unify, merge, sublot>>

NextProc == AreaFilter \/ Classify \/ ClassifyDirect

SpecProc == InitProc /\ [][NextProc]_vars

-----------------------------------------------------------------------------
(* Claims about the classification and the area filter.                     *)

StrictlyIncreasing(s) == \A a, b \in 1..Len(s) : a < b => s[a] < s[b]

\* C8: classify_contours partitions its input.  A contour of 3 or more
\* points with parent -1 is in bordes_externos and not in sublotes; a contour
\* with a parent is in sublotes iff is_valid_sublot holds, and not in
\* bordes_externos, also when the parent was removed by the area filter; a
\* contour of fewer than 3 points is in neither; no contour is in both lists
\* or twice in one, and each list keeps the input order.
C8_ClassificationPartitions ==
    pc \in {"proc_classified", "classify_done"} =>
        LET contours  == proc.classify_contours
            hierarchy == proc.classify_hierarchy
            out       == proc.classified_contours
            external  == Range(out.external_from)
            internal  == Range(out.internal_from)
        IN  /\ Len(out.bordes_externos) = Len(out.external_from)
            /\ Len(out.sublotes) = Len(out.internal_from)
            /\ external \cup internal \subseteq 1..Len(contours)
            /\ \A k \in 1..Len(out.external_from) :
                   out.bordes_externos[k] = contours[out.external_from[k]]
            /\ \A k \in 1..Len(out.internal_from) :
                   out.sublotes[k] = contours[out.internal_from[k]]
            /\ \A i \in 1..Len(contours) :
                   /\ (Len(contours[i]) >= 3 /\ hierarchy[i][4] = -1)
                          => (i \in external /\ i \notin internal)
                   /\ hierarchy[i][4] # -1
                          => /\ i \in internal <=> is_valid_sublot(contours[i], proc.cfg)
                             /\ i \notin external
                   /\ Len(contours[i]) < 3 => (i \notin external /\ i \notin internal)
            /\ external \cap internal = {}
            /\ StrictlyIncreasing(out.external_from)
            /\ StrictlyIncreasing(out.internal_from)

\* procesar_imagen has classified three contours: the first was removed by
\* the area filter, its child was accepted as a sub-lot, and a contour with
\* no parent became an external border
C8_Witness ==
    /\ pc = "proc_classified"
    /\ Len(proc.contours) = 3
    /\ 1 \notin Range(proc.kept)
    /\ \E k \in 1..Len(proc.kept) :
           /\ proc.hierarchy[proc.kept[k]][4] = 0
           /\ k \in Range(proc.classified_contours.internal_from)
    /\ Len(proc.classified_contours.bordes_externos) = 1
    /\ Len(proc.classified_contours.sublotes) = 1

\* C9: the area filter discards a contour iff its area is strictly below
\* min_contour_area (a contour of exactly that area is kept), and entry k of
\* the filtered hierarchy is the hierarchy entry of the k-th kept contour.
C9_AreaFilterKeepsFromMinimum ==
    pc = "proc_filtered" =>
        /\ \A i \in 1..Len(proc.contours) :
               i \notin Range(proc.kept)
                   <=> contourAreaTwice(proc.contours[i]) < 2 * proc.cfg.min_contour_area
        /\ StrictlyIncreasing(proc.kept)
        /\ Len(proc.filtered_contours) = Len(proc.kept)
        /\ Len(proc.filtered_hierarchy) = Len(proc.kept)
        /\ \A k \in 1..Len(proc.kept) :
               /\ proc.filtered_contours[k] = proc.contours[proc.kept[k]]
               /\ proc.filtered_hierarchy[k] = proc.hierarchy[proc.kept[k]]

----------------------------------------------------------------------------
(* Further claims about the endpoint merger.                               *)

\* the identities of all vertices of input contour c
VerticesOfInput(c) == {<<c, k>> : k \in 1..Len(merge.contours[c])}

\* C11: every selected pair is applied: for each selected pair (c1, c2) all
\* vertices of the input contours c1 and c2 are in one and the same output
\* contour, whatever the order in which the sorted pairs are processed.
C11_EverySelectedPairApplied ==
    pc = "merge_done" =>
        \A n \in 1..Len(merge.merge_pairs) :
            LET pair == merge.merge_pairs[n]
            IN  \E m \in 1..Len(merge.final_origin) :
                    VerticesOfInput(pair.c1) \cup VerticesOfInput(pair.c2)
                        \subseteq Range(merge.final_origin[m])

RECURSIVE Flatten(_)
Flatten(contours) ==
    IF contours = <<>> THEN <<>> ELSE Head(contours) \o Flatten(Tail(contours))

\* C15: when every input contour has 2 or more vertices, the output holds
\* every input vertex exactly once (each output vertex is one input vertex,
\* with its coordinates, and no input vertex is missing or repeated), and
\* the number of output contours is the number of input contours minus the
\* number of merges applied.
C15_VerticesConserved ==
    (pc = "merge_done" /\ \A c \in 1..Len(merge.contours) : Len(merge.contours[c]) >= 2) =>
        LET ids == Flatten(merge.final_origin)
        IN  /\ Len(merge.final_origin) = Len(merge.final_contours)
            /\ \A m \in 1..Len(merge.final_contours) :
                   /\ Len(merge.final_origin[m]) = Len(merge.final_contours[m])
                   /\ \A k \in 1..Len(merge.final_contours[m]) :
                          LET id == merge.final_origin[m][k]
                          IN  /\ id[1] \in 1..Len(merge.contours)
                              /\ id[2] \in 1..Len(merge.contours[id[1]])
                              /\ merge.final_contours[m][k] = merge.contours[id[1]][id[2]]
            /\ Range(ids) = UNION {VerticesOfInput(c) : c \in 1..Len(merge.contours)}
            /\ Len(ids) = TotalLen(merge.contours)
            /\ Len(merge.final_contours) = Len(merge.contours) - merge.applied

\* three contours of two vertices each went through two merges into one
C15_Witness ==
    /\ pc = "merge_done"
    /\ Len(merge.contours) = 3
    /\ \A c \in 1..3 : Len(merge.contours[c]) = 2
    /\ merge.applied = 2
    /\ Len(merge.final_contours) = 1 /\ Len(merge.final_contours[1]) = 6

----------------------------------------------------------------------------
(* Further claims about the unifier.                                       *)

\* every input contour after the centroid rewriting and the collapse of the
\* vertices too close to the one kept before them
Rewritten(contours, twoMD) ==
    LET all_points == AllPointsFrom(contours, 1, twoMD)
        cluster_centroids ==
            CentroidsFrom(contours, all_points,
                          Clustering(all_points, 1, {}, <<>>, twoMD), 1, <<>>)
    IN  [c \in 1..Len(contours) |->
            UnifyContourFrom(contours[c], c, 1, <<>>, cluster_centroids, twoMD)]

\* 2 or more vertices, consecutive vertices at merge_distance / 2 or more,
\* total length 2 * merge_distance or more
WellFormed(contour, twoMD) ==
    /\ Len(contour) >= 2
    /\ \A k \in 1..(Len(contour) - 1) :
           16 * Dist2(contour[k], contour[k + 1]) >= twoMD * twoMD
    /\ TotalLengthMilli(contour) >= 1000 * twoMD

\* out is what is left of the rewritten contours of inp, in their order,
\* when those that are not well formed are taken away
SurvivorsInOrder(inp, out, twoMD) ==
    \E from \in [1..Len(out) -> 1..Len(inp)] :
        /\ \A a, b \in 1..Len(out) : a < b => from[a] < from[b]
        /\ \A m \in 1..Len(out) : out[m] = Rewritten(inp, twoMD)[from[m]]
        /\ \A c \in 1..Len(inp) :
               (\E m \in 1..Len(out) : from[m] = c)
                   <=> WellFormed(Rewritten(inp, twoMD)[c], twoMD)

\* C12: every contour returned by unify_close_points has 2 or more vertices,
\* consecutive vertices at distance merge_distance / 2 or more and a total
\* length of 2 * merge_distance or more; an input contour that fails one of
\* these after the rewriting is absent from the output, and the others are
\* there in their input order.  (Checked for the first run and for the run
\* on its output.)
C12_ReturnedContoursWellFormed ==
    /\ pc \in {"unify_once", "unify_twice"} =>
           /\ \A m \in 1..Len(unify.once) : WellFormed(unify.once[m], unify.twoMD)
           /\ SurvivorsInOrder(unify.contours, unify.once, unify.twoMD)
    /\ pc = "unify_twice" =>
           /\ \A m \in 1..Len(unify.twice) : WellFormed(unify.twice[m], unify.twoMD)
           /\ SurvivorsInOrder(unify.once, unify.twice, unify.twoMD)

\* of two input contours the first had 2 vertices left after the rewriting
\* but was too short and is absent, the second was rewritten and returned
C12_Witness ==
    /\ pc = "unify_once"
    /\ Len(unify.contours) = 2 /\ Len(unify.once) = 1
    /\ Len(Rewritten(unify.contours, unify.twoMD)[1]) = 2
    /\ ~WellFormed(Rewritten(unify.contours, unify.twoMD)[1], unify.twoMD)
    /\ unify.once[1] = Rewritten(unify.contours, unify.twoMD)[2]
    /\ unify.once[1] # unify.contours[2]

\* the clustering with no grid: the cluster of an unvisited seed is the seed
\* and every vertex not visited yet within merge_distance of it; all
\* clusters are listed, those of a single vertex too
RECURSIVE BruteForceClustering(_, _, _, _, _)
BruteForceClustering(all_points, seed, visited, clusters, twoMD) ==
    IF seed > Len(all_points) THEN clusters
    ELSE IF seed \in visited
         THEN BruteForceClustering(all_points, seed + 1, visited, clusters, twoMD)
    ELSE LET cluster ==
                 {seed} \cup
                 {i \in 1..Len(all_points) :
                     /\ i \notin visited
                     /\ 4 * Dist2(all_points[seed].coords, all_points[i].coords)
                            <= twoMD * twoMD}
         IN  BruteForceClustering(all_points, seed + 1, visited \cup cluster,
                                  Append(clusters, cluster), twoMD)

MoreThanOne(cluster) == Cardinality(cluster) > 1

\* the clusters the code builds from the input of the run
ClustersOfRun ==
    Clustering(AllPointsFrom(unify.contours, 1, unify.twoMD), 1, {}, <<>>, unify.twoMD)

\* C13: the clustering through the grid is the brute-force one: the clusters
\* the code records (those of more than one vertex) are, in order, the
\* brute-force clusters of more than one vertex, so a vertex the code leaves
\* unclustered is alone in its brute-force cluster; no vertex is in two
\* clusters; and a vertex in a cluster is within merge_distance of the
\* cluster's seed (its first vertex) and in a cell next to the seed's.
C13_GridClusteringIsBruteForce ==
    pc = "unify_once" =>
        LET all_points == AllPointsFrom(unify.contours, 1, unify.twoMD)
            clusters   == ClustersOfRun
            brute      == BruteForceClustering(all_points, 1, {}, <<>>, unify.twoMD)
        IN  /\ clusters = SelectSeq(brute, MoreThanOne)
            /\ \A v \in 1..Len(all_points) :
                   Cardinality({n \in 1..Len(brute) : v \in brute[n]}) = 1
            /\ \A m, n \in 1..Len(clusters) : m # n => clusters[m] \cap clusters[n] = {}
            /\ \A n \in 1..Len(clusters) :
                   LET seed == CHOOSE i \in clusters[n] : \A j \in clusters[n] : i <= j
                   IN  \A i \in clusters[n] :
                           /\ 4 * Dist2(all_points[seed].coords, all_points[i].coords)
                                  <= unify.twoMD * unify.twoMD
                           /\ Abs(all_points[seed].grid_key[1] - all_points[i].grid_key[1]) <= 1
                           /\ Abs(all_points[seed].grid_key[2] - all_points[i].grid_key[2]) <= 1

\* a cluster took a vertex from a cell other than the seed's, and left out a
\* vertex that is within merge_distance of one of its members but not of the
\* seed
C13_Witness ==
    /\ pc = "unify_once"
    /\ LET all_points == AllPointsFrom(unify.contours, 1, unify.twoMD)
           clusters   == ClustersOfRun
       IN  \E n \in 1..Len(clusters) :
               LET seed == CHOOSE i \in clusters[n] : \A j \in clusters[n] : i <= j
               IN  /\ \E i \in clusters[n] :
                          all_points[i].grid_key # all_points[seed].grid_key
                   /\ \E i \in clusters[n] : \E v \in 1..Len(all_points) :
                          /\ v \notin clusters[n]
                          /\ 4 * Dist2(all_points[i].coords, all_points[v].coords)
                                 <= unify.twoMD * unify.twoMD
                          /\ 4 * Dist2(all_points[seed].coords, all_points[v].coords)
                                 > unify.twoMD * unify.twoMD

----------------------------------------------------------------------------
(* Further claims about the simplifier.                                    *)

\* The positions (in the whole input) of the points the call on
\* points[lo..hi] returns: the recursion of ramer_douglas_peucker with every
\* point replaced by its position.
RECURSIVE KeptPositions(_, _, _, _)
KeptPositions(points, lo, hi, epsilon) ==
    IF hi - lo + 1 <= 2 THEN [n \in 1..(hi - lo + 1) |-> lo + n - 1]
    ELSE LET f == Farthest(SubSeq(points, lo, hi))
         IN  IF ExceedsEpsilon(f.dmax, epsilon)
             THEN JoinResults(KeptPositions(points, lo, lo + f.index - 1, epsilon),
                              KeptPositions(points, lo + f.index - 1, hi, epsilon))
             ELSE Collapse([n \in 1..(hi - lo + 1) |-> lo + n - 1])

\* C14: for a sequence of 2 or more points and an epsilon >= 0 the result is
\* a subsequence of the input in the input's order, it starts with the first
\* point and ends with the last, and every point that was removed is within
\* epsilon of the segment joining the kept point before it and the kept
\* point after it.
C14_RemovedPointsWithinEpsilon ==
    pc = "rdp_done" =>
        LET points == rdp.points
            kept   == KeptPositions(points, 1, Len(points), rdp.epsilon)
        IN  /\ Len(rdp.result) = Len(kept)
            /\ \A m \in 1..Len(kept) :
                   kept[m] \in 1..Len(points) /\ rdp.result[m] = points[kept[m]]
            /\ \A m \in 1..(Len(kept) - 1) : kept[m] < kept[m + 1]
            /\ kept[1] = 1 /\ kept[Len(kept)] = Len(points)
            /\ rdp.result[1] = points[1]
            /\ rdp.result[Len(rdp.result)] = points[Len(points)]
            /\ \A m \in 1..(Len(kept) - 1) :
                   \A i \in (kept[m] + 1)..(kept[m + 1] - 1) :
                       FracLE(distance_point_to_line(points[i], points[kept[m]],
                                                     points[kept[m + 1]]),
                              <<rdp.epsilon * rdp.epsilon, 1>>)

\* of four points one was kept and one removed, the removed one off the
\* segment of the kept points around it
C14_Witness ==
    /\ pc = "rdp_done" /\ rdp.epsilon > 0
    /\ Len(rdp.points) = 4 /\ Len(rdp.result) = 3
    /\ LET kept == KeptPositions(rdp.points, 1, 4, rdp.epsilon)
       IN  \E m \in 1..2 : \E i \in (kept[m] + 1)..(kept[m + 1] - 1) :
               distance_point_to_line(rdp.points[i], rdp.points[kept[m]],
                                      rdp.points[kept[m + 1]])[1] > 0

=============================================================================
